---- MODULE Spec2Model ----
(***************************************************************************)
(* A model of winrt_ble_wrapper.cpp: the C API over the WinRT Bluetooth LE *)
(* advertisement watcher.  The program's globals are the variables g_*;    *)
(* the platform (apartment, watcher objects, detached timer threads, the   *)
(* advertisements the radio delivers) is the environment.                  *)
(*                                                                         *)
(* Strings are sequences of character codes.  A char* is modelled as a set *)
(* with at most one element: {} is nullptr, {s} points to the bytes s (the *)
(* terminating NUL is implicit).  Pointers to callbacks and to user data   *)
(* are small integers, 0 being nullptr.                                    *)
(*                                                                         *)
(* The address and rssi fields of BLEDevice are not modelled: no claim     *)
(* reads them.  A device carries instead the number of the advertisement   *)
(* it was built from.                                                      *)
(***************************************************************************)
EXTENDS Integers, Sequences, FiniteSets, TLC

\* ------------------------------------------------------------------ bounds
MaxScans == 2       \* watchers created over a run
MaxDevices == 1     \* devices stored during one scan
MaxUnbalanced == 1  \* uninit_apartment calls in excess of the init_apartment calls
MaxDuration == 1    \* largest durationMs, in clock ticks

ScanIds == 1..MaxScans
Durations == 0..MaxDuration
Callbacks == {0, 1}
UserData == {0, 1}
NioxOnlyArgs == {0, 1, 2}

\* ------------------------------------------------------------ pure helpers
\* "NIOX PRO"
NIOX_PREFIX == <<78, 73, 79, 88, 32, 80, 82, 79>>

\* The local names the radio delivers, as UTF-16 code units:
\* "", "NIOX PRO", "NIOX PRO 7", "NIOX PR", "XNIOX PRO",
\* "NIOX PRO" followed by e-acute (U+00E9), and NUL followed by "NIOX PRO".
LocalNames ==
    { <<>>,
      <<78, 73, 79, 88, 32, 80, 82, 79>>,
      <<78, 73, 79, 88, 32, 80, 82, 79, 32, 55>>,
      <<78, 73, 79, 88, 32, 80, 82>>,
      <<88, 78, 73, 79, 88, 32, 80, 82, 79>>,
      <<78, 73, 79, 88, 32, 80, 82, 79, 233>>,
      <<0, 78, 73, 79, 88, 32, 80, 82, 79>> }

\* The character of a C string at position i (1-based); the terminator past its end.
CharAt(s, i) == IF i <= Len(s) THEN s[i] ELSE 0

strlen(s) == Len(s)

RECURSIVE strncmp_from(_, _, _, _)
strncmp_from(a, b, n, i) ==
    IF i > n THEN 0
    ELSE LET ca == CharAt(a, i)
             cb == CharAt(b, i)
         IN  IF ca # cb THEN (IF ca < cb THEN -1 ELSE 1)
             ELSE IF ca = 0 THEN 0
             ELSE strncmp_from(a, b, n, i + 1)

strncmp(a, b, n) == strncmp_from(a, b, n, 1)

\* std::wstring(hstr.c_str()): the code units up to the first NUL.
RECURSIVE c_str_from(_, _)
c_str_from(h, i) ==
    IF i > Len(h) \/ h[i] = 0 THEN <<>>
    ELSE <<h[i]>> \o c_str_from(h, i + 1)

\* WideCharToMultiByte(CP_UTF8) of one code unit (no surrogates in LocalNames).
Utf8(c) ==
    IF c < 128 THEN <<c>>
    ELSE IF c < 2048 THEN <<192 + (c \div 64), 128 + (c % 64)>>
    ELSE <<224 + (c \div 4096), 128 + ((c \div 64) % 64), 128 + (c % 64)>>

RECURSIVE wstring_to_cstring(_)
wstring_to_cstring(w) ==
    IF w = <<>> THEN <<>>
    ELSE Utf8(Head(w)) \o wstring_to_cstring(Tail(w))

hstring_to_cstring(h) == wstring_to_cstring(c_str_from(h, 1))

NullBug_is_niox_device(name) ==
    IF name = {} THEN TRUE
    ELSE LET s == CHOOSE x \in name : TRUE
         IN  strncmp(s, NIOX_PREFIX, strlen(NIOX_PREFIX)) = 0

is_niox_device(name) ==
    IF name = {} THEN FALSE
    ELSE LET s == CHOOSE x \in name : TRUE
         IN  strncmp(s, NIOX_PREFIX, strlen(NIOX_PREFIX)) = 0

\* ------------------------------------------------------------------- state
VARIABLES
    g_initialized,          \* the library's initialized flag
    g_watcher,              \* 0 (empty unique_ptr) or the id of the watcher it owns
    g_discovered_devices,   \* sequence of BLEDevice
    g_callback,             \* 0 or a callback
    g_user_data,            \* 0 or a user-data pointer
    g_niox_only,            \* the filter flag
    watchers,               \* the watcher objects created so far, by id
    timer,                  \* the detached timer thread of each scan, by scan id
    apartment,              \* successful init_apartment calls less uninit_apartment calls
    thr,                    \* where each thread stands inside a call that runs statement
                            \* by statement (thread 0: the client; thread w: the timer
                            \* thread of scan w), and the handle it last read from g_watcher
    crashed,                \* the process has died of an access violation
    handler,                \* where the advertisement handler stands when it runs
                            \* statement by statement on the platform's thread, and
                            \* its locals
    cur,                    \* the arguments of the winrt_start_scan call that started the
                            \* scan in progress (watcher 0: no scan is in progress)
    last                    \* what happened last: a call of the client returned (its name,
                            \* the value returned, 0 for a void call, and whether an
                            \* exception escaped it), an advertisement was handled, a
                            \* timer thread ran, or the clock ticked

vars == <<g_initialized, g_watcher, g_discovered_devices, g_callback, g_user_data,
          g_niox_only, watchers, timer, apartment, thr, crashed, handler, cur, last>>

NoWatcher == [status |-> "none", stops |-> 0, released |-> 0]
NoTimer == [pc |-> "none", remaining |-> 0]
NoScan == [w |-> 0, callback |-> 0, userData |-> 0, nioxOnly |-> 0]

\* The threads: the client's, and the timer thread of each scan.
Client == 0
Threads == {Client} \cup ScanIds

\* A thread that is inside none of the calls.
Outside == [op |-> "none", pc |-> "out", h |-> 0, d |-> 0]

\* No advertisement handler is running.
NoHandler == [pc |-> "out", w |-> 0, localName |-> <<>>, name |-> {}]

Returned(op, ret) == [kind |-> "call", op |-> op, ret |-> ret, threw |-> FALSE]

\* A return of winrt_check_bluetooth_state, with what the platform did during the
\* call: "init_fail" (init_apartment threw) or one of RadioEnvs.
Checked(ret, env) ==
    [kind |-> "call", op |-> "check", ret |-> ret, threw |-> FALSE, env |-> env]

Init ==
    /\ g_initialized = FALSE
    /\ g_watcher = 0
    /\ g_discovered_devices = <<>>
    /\ g_callback = 0
    /\ g_user_data = 0
    /\ g_niox_only = FALSE
    /\ watchers = [w \in ScanIds |-> NoWatcher]
    /\ timer = [w \in ScanIds |-> NoTimer]
    /\ apartment = 0
    /\ thr = [t \in Threads |-> Outside]
    /\ crashed = FALSE
    /\ handler = NoHandler
    /\ cur = NoScan
    /\ last = Returned("none", 0)

\* The number of watchers created so far.
Created == Cardinality({w \in ScanIds : watchers[w].status # "none"})

\* ------------------------------------------------------- shared operations
\* winrt_initialize, lines 67-78: what it returns, given whether init_apartment succeeds.
winrt_initialize_ret(initOk) == IF g_initialized \/ initOk THEN 0 ELSE -1

\* winrt_initialize, lines 67-78: its effect on the flag and on the apartment.
winrt_initialize_eff(initOk) ==
    /\ g_initialized' = (g_initialized \/ initOk)
    /\ apartment' = IF ~g_initialized /\ initOk THEN apartment + 1 ELSE apartment

StopAndReset_NoReset(stopOk) ==
    IF g_watcher # 0
    THEN /\ watchers' = [watchers EXCEPT ![g_watcher].stops = @ + 1]
         /\ UNCHANGED <<g_watcher, cur>>
    ELSE UNCHANGED <<watchers, g_watcher, cur>>

\* if (g_watcher) { try { g_watcher->Stop(); } catch (...) {} g_watcher.reset(); }
\* run without interruption.  Whether Stop throws (stopOk) changes nothing: the
\* exception is swallowed and the watcher is released either way.
StopAndReset(stopOk) ==
    IF g_watcher # 0
    THEN /\ watchers' = [watchers EXCEPT ![g_watcher] =
                            [status |-> "released",
                             stops |-> @.stops + 1,
                             released |-> @.released + 1]]
         /\ g_watcher' = 0
         /\ cur' = NoScan
    ELSE UNCHANGED <<watchers, g_watcher, cur>>

\* The radio states RadioState names, one value outside the enumeration, and the
\* other ways the platform calls of lines 114-128 can end.
RadioEnvs == {"throw", "no_adapter", "no_radio", "Unknown", "On", "Off", "Disabled", "Other"}

BluetoothState_NoDisabled(env) ==
    CASE env = "no_adapter" -> 2
      [] env = "no_radio" -> 2
      [] env = "On" -> 0
      [] env = "Off" -> 1
      [] OTHER -> 3

\* Lines 112-143: the value returned once the library is initialized.
BluetoothState(env) ==
    CASE env = "no_adapter" -> 2
      [] env = "no_radio" -> 2
      [] env = "On" -> 0
      [] env = "Off" -> 1
      [] env = "Disabled" -> 1
      [] OTHER -> 3

\* Lines 186-190.
should_report(name) == ~(g_niox_only /\ ~is_niox_device(name))

\* Lines 179-184.
local_name(localName) ==
    IF localName # <<>> THEN {hstring_to_cstring(localName)} ELSE {}

invoke_callback_NullUserData ==
    IF g_callback # 0
    THEN [invoked |-> 1, callback |-> g_callback, userData |-> 0]
    ELSE [invoked |-> 0, callback |-> 0, userData |-> 0]

\* Lines 203-206: the callback invoked for a stored device, with its user data.
invoke_callback ==
    IF g_callback # 0
    THEN [invoked |-> 1, callback |-> g_callback, userData |-> g_user_data]
    ELSE [invoked |-> 0, callback |-> 0, userData |-> 0]

AlreadyScanning_ClearsList ==
    /\ last' = Returned("start", -1)
    /\ g_discovered_devices' = <<>>
    /\ UNCHANGED <<g_watcher, g_callback, g_user_data, g_niox_only, watchers, timer, cur>>

\* Lines 154-156: a watcher exists, and the call returns -1 at once.
AlreadyScanning ==
    /\ last' = Returned("start", -1)
    /\ UNCHANGED <<g_watcher, g_discovered_devices, g_callback, g_user_data,
                   g_niox_only, watchers, timer, cur>>

LaunchTimer_Never(w, durationMs) == timer

\* Lines 221-225: the detached timer thread of scan w, asleep for durationMs.
LaunchTimer(w, durationMs) ==
    [timer EXCEPT ![w] = [pc |-> "sleep", remaining |-> durationMs]]

\* ------------------------------------------------- the calls, uninterrupted
winrt_initialize(initOk) ==
    /\ UNCHANGED <<thr, crashed, handler>>
    /\ winrt_initialize_eff(initOk)
    /\ last' = Returned("initialize", winrt_initialize_ret(initOk))
    /\ UNCHANGED <<g_watcher, g_discovered_devices, g_callback, g_user_data,
                   g_niox_only, watchers, timer, cur>>

winrt_cleanup_KeepsCallback(stopOk) ==
    /\ UNCHANGED <<thr, crashed, handler>>
    /\ apartment > -MaxUnbalanced
    /\ StopAndReset(stopOk)
    /\ g_discovered_devices' = <<>>
    /\ g_user_data' = 0
    /\ g_initialized' = FALSE
    /\ apartment' = apartment - 1
    /\ last' = Returned("cleanup", 0)
    /\ UNCHANGED <<g_callback, g_niox_only, timer>>

winrt_cleanup(stopOk) ==
    /\ UNCHANGED <<thr, crashed, handler>>
    /\ apartment > -MaxUnbalanced
    /\ StopAndReset(stopOk)
    /\ g_discovered_devices' = <<>>
    /\ g_callback' = 0
    /\ g_user_data' = 0
    /\ g_initialized' = FALSE
    /\ apartment' = apartment - 1
    /\ last' = Returned("cleanup", 0)
    /\ UNCHANGED <<g_niox_only, timer>>

winrt_check_bluetooth_state(initOk, env) ==
    /\ UNCHANGED <<thr, crashed, handler>>
    /\ winrt_initialize_eff(initOk)
    /\ last' = IF winrt_initialize_ret(initOk) # 0
               THEN Checked(3, "init_fail")
               ELSE Checked(BluetoothState(env), env)
    /\ UNCHANGED <<g_watcher, g_discovered_devices, g_callback, g_user_data,
                   g_niox_only, watchers, timer, cur>>

\* What can throw inside the try block of lines 158-228: nothing, the watcher's
\* construction, its Start, or the launch of the timer thread.
StartFailures == {"none", "create", "start", "thread"}

winrt_start_scan(durationMs, nioxOnly, callback, userData, initOk, fail) ==
    /\ UNCHANGED <<thr, crashed, handler>>
    /\ winrt_initialize_eff(initOk)
    /\ IF winrt_initialize_ret(initOk) # 0
       THEN /\ last' = Returned("start", -1)
            /\ UNCHANGED <<g_watcher, g_discovered_devices, g_callback, g_user_data,
                           g_niox_only, watchers, timer, cur>>
       ELSE IF g_watcher # 0
       THEN AlreadyScanning
       ELSE LET w == Created + 1 IN
            /\ Created < MaxScans
            /\ g_callback' = callback
            /\ g_user_data' = userData
            /\ g_niox_only' = (nioxOnly # 0)
            /\ g_discovered_devices' = <<>>
            /\ g_watcher' = IF fail = "none" THEN w ELSE 0
            /\ watchers' =
                 IF fail = "create" THEN watchers
                 ELSE [watchers EXCEPT ![w] =
                         [status |-> IF fail = "none" THEN "started" ELSE "released",
                          stops |-> 0,
                          released |-> IF fail = "none" THEN 0 ELSE 1]]
            /\ timer' =
                 IF fail = "none" THEN LaunchTimer(w, durationMs) ELSE timer
            /\ cur' =
                 IF fail = "none"
                 THEN [w |-> w, callback |-> callback, userData |-> userData,
                       nioxOnly |-> nioxOnly]
                 ELSE cur
            /\ last' = Returned("start", IF fail = "none" THEN 0 ELSE -1)

winrt_stop_scan(stopOk) ==
    /\ UNCHANGED <<thr, crashed, handler>>
    /\ StopAndReset(stopOk)
    /\ last' = Returned("stop", 0)
    /\ UNCHANGED <<g_initialized, g_discovered_devices, g_callback, g_user_data,
                   g_niox_only, timer, apartment>>

\* ------------------------------------------------------- the environment
\* One clock tick: every sleeping timer thread is one tick nearer to waking.
Tick ==
    /\ UNCHANGED <<thr, crashed, handler>>
    /\ \E w \in ScanIds : timer[w].pc = "sleep" /\ timer[w].remaining > 0
    /\ timer' = [w \in ScanIds |->
                   IF timer[w].pc = "sleep" /\ timer[w].remaining > 0
                   THEN [timer[w] EXCEPT !.remaining = @ - 1]
                   ELSE timer[w]]
    /\ last' = [kind |-> "tick"]
    /\ UNCHANGED <<g_initialized, g_watcher, g_discovered_devices, g_callback,
                   g_user_data, g_niox_only, watchers, apartment, cur>>

TimerThread_NoStop(w, stopOk) ==
    /\ UNCHANGED <<thr, crashed, handler>>
    /\ timer[w].pc = "sleep"
    /\ timer[w].remaining = 0
    /\ timer' = [timer EXCEPT ![w].pc = "done"]
    /\ last' = [kind |-> "timer", w |-> w]
    /\ UNCHANGED <<g_initialized, g_watcher, g_discovered_devices, g_callback,
                   g_user_data, g_niox_only, watchers, apartment, cur>>

\* Lines 222-225: the timer thread of scan w wakes and calls winrt_stop_scan.
TimerThread(w, stopOk) ==
    /\ UNCHANGED <<thr, crashed, handler>>
    /\ timer[w].pc = "sleep"
    /\ timer[w].remaining = 0
    /\ StopAndReset(stopOk)
    /\ timer' = [timer EXCEPT ![w].pc = "done"]
    /\ last' = [kind |-> "timer", w |-> w]
    /\ UNCHANGED <<g_initialized, g_discovered_devices, g_callback, g_user_data,
                   g_niox_only, apartment>>

\* Lines 171-216: the running watcher delivers an advertisement to the handler.
Received(localName) ==
    /\ UNCHANGED <<thr, crashed, handler>>
    /\ g_watcher # 0
    /\ watchers[g_watcher].status = "started"
    /\ LET name == local_name(localName)
           device == [name |-> name]
           report == should_report(name)
           call == IF report THEN invoke_callback
                   ELSE [invoked |-> 0, callback |-> 0, userData |-> 0]
       IN  /\ report => Len(g_discovered_devices) < MaxDevices
           /\ g_discovered_devices' =
                IF report THEN Append(g_discovered_devices, device)
                ELSE g_discovered_devices
           /\ last' =
                [kind |-> "advert", w |-> g_watcher, localName |-> localName,
                 device |-> device, stored |-> report,
                 invoked |-> call.invoked, callback |-> call.callback,
                 userData |-> call.userData]
    /\ UNCHANGED <<g_initialized, g_watcher, g_callback, g_user_data, g_niox_only,
                   watchers, timer, apartment, cur>>

\* The inputs of winrt_check_bluetooth_state: when init_apartment throws, the
\* radio is not asked, so one radio outcome stands for all.
CheckInputs ==
    {a \in BOOLEAN \X RadioEnvs : ~a[1] => a[2] = "On"}

\* The inputs of winrt_start_scan, less those that cannot be told apart: the
\* duration is read only when nothing throws, and when init_apartment throws no
\* argument is read (a throwing init_apartment is tried with one set of arguments;
\* it is not called when the library is initialized).
StartInputs(nioxArgs) ==
    {a \in Durations \X nioxArgs \X Callbacks \X UserData \X BOOLEAN \X StartFailures :
        /\ a[6] # "none" => a[1] = 0
        /\ ~a[5] => (a[1] = 0 /\ a[2] = 0 /\ a[3] = 0 /\ a[4] = 0 /\ a[6] = "none")}

Next ==
    \/ \E initOk \in BOOLEAN : winrt_initialize(initOk)
    \/ \E stopOk \in BOOLEAN : winrt_cleanup(stopOk)
    \/ \E a \in CheckInputs : winrt_check_bluetooth_state(a[1], a[2])
    \/ \E a \in StartInputs({0, 1}) :
          winrt_start_scan(a[1], a[2], a[3], a[4], a[5], a[6])
    \/ \E stopOk \in BOOLEAN : winrt_stop_scan(stopOk)
    \/ Tick
    \/ \E w \in ScanIds, stopOk \in BOOLEAN : TimerThread(w, stopOk)
    \/ \E localName \in {<<>>, NIOX_PREFIX} : Received(localName)

Spec == Init /\ [][Next]_vars

\* The scans alone, with every local name and every argument of winrt_start_scan:
\* the library initializes at once, nothing throws, and the timers are due at once.
NextFilter ==
    \/ \E stopOk \in BOOLEAN : winrt_cleanup(stopOk)
    \/ \E n \in NioxOnlyArgs, cb \in Callbacks, ud \in UserData :
          winrt_start_scan(0, n, cb, ud, TRUE, "none")
    \/ \E stopOk \in BOOLEAN : winrt_stop_scan(stopOk)
    \/ \E w \in ScanIds, stopOk \in BOOLEAN : TimerThread(w, stopOk)
    \/ \E localName \in LocalNames : Received(localName)

SpecFilter == Init /\ [][NextFilter]_vars

\* The calls that read or write g_watcher, the timers or the initialized flag, with
\* every outcome of the platform calls; no advertisement is delivered.
NextTimers ==
    \/ \E initOk \in BOOLEAN : winrt_initialize(initOk)
    \/ \E stopOk \in BOOLEAN : winrt_cleanup(stopOk)
    \/ \E a \in StartInputs({0, 1}) :
          winrt_start_scan(a[1], a[2], a[3], a[4], a[5], a[6])
    \/ \E stopOk \in BOOLEAN : winrt_stop_scan(stopOk)
    \/ Tick
    \/ \E w \in ScanIds, stopOk \in BOOLEAN : TimerThread(w, stopOk)

\* The timer threads are scheduled and the clock advances: a sleeping thread wakes
\* once its delay has elapsed, and then runs.
FairSpec ==
    /\ Init /\ [][NextTimers]_vars
    /\ WF_vars(Tick)
    /\ \A w \in ScanIds : WF_vars(\E stopOk \in BOOLEAN : TimerThread(w, stopOk))

\* ------------------------------------------ the calls, statement by statement
\* The client's thread and the timer threads share g_watcher with no lock.  Here
\* winrt_stop_scan, the first block of winrt_cleanup and winrt_start_scan run one
\* statement at a time, and the threads interleave between statements.  Whether
\* Stop throws is left out: the exception is swallowed and changes nothing.
Step == [kind |-> "step"]

\* if (g_watcher), line 237 (line 82 in winrt_cleanup): thread t reads g_watcher
\* and enters the block when it is not empty.
IfWatcher(t, op) ==
    thr' = [thr EXCEPT ![t] =
              [op |-> op, pc |-> IF g_watcher # 0 THEN "Stop" ELSE "after",
               h |-> g_watcher, d |-> 0]]

\* Lines 222-224: the timer thread of scan w wakes and enters winrt_stop_scan.
timer_wake(w) ==
    /\ ~crashed
    /\ UNCHANGED handler
    /\ timer[w].pc = "sleep"
    /\ timer[w].remaining = 0
    /\ timer' = [timer EXCEPT ![w].pc = "woken"]
    /\ IfWatcher(w, "stop")
    /\ last' = Step
    /\ UNCHANGED <<g_initialized, g_watcher, g_discovered_devices, g_callback,
                   g_user_data, g_niox_only, watchers, apartment, crashed, cur>>

\* The client enters winrt_stop_scan, line 237.
call_winrt_stop_scan ==
    /\ ~crashed
    /\ UNCHANGED handler
    /\ thr[Client].op = "none"
    /\ IfWatcher(Client, "stop")
    /\ last' = Step
    /\ UNCHANGED <<g_initialized, g_watcher, g_discovered_devices, g_callback,
                   g_user_data, g_niox_only, watchers, timer, apartment, crashed, cur>>

\* The client enters winrt_cleanup, line 82.
call_winrt_cleanup ==
    /\ ~crashed
    /\ UNCHANGED handler
    /\ thr[Client].op = "none"
    /\ apartment > -MaxUnbalanced
    /\ IfWatcher(Client, "cleanup")
    /\ last' = Step
    /\ UNCHANGED <<g_initialized, g_watcher, g_discovered_devices, g_callback,
                   g_user_data, g_niox_only, watchers, timer, apartment, crashed, cur>>

\* g_watcher->Stop(), line 239 (line 84): thread t reads g_watcher again and calls
\* Stop through it.  Through an empty g_watcher this dereferences a null pointer:
\* the process dies, or the fault is swallowed by catch (...) and the thread goes on.
Watcher_Stop(t) ==
    /\ ~crashed
    /\ UNCHANGED handler
    /\ thr[t].pc = "Stop"
    /\ thr' = [thr EXCEPT ![t].pc = "reset"]
    /\ IF g_watcher = 0
       THEN /\ last' = [kind |-> "nullderef", thread |-> t]
            /\ crashed' \in BOOLEAN
            /\ UNCHANGED watchers
       ELSE /\ watchers' = [watchers EXCEPT ![g_watcher].stops = @ + 1]
            /\ last' = Step
            /\ UNCHANGED crashed
    /\ UNCHANGED <<g_initialized, g_watcher, g_discovered_devices, g_callback,
                   g_user_data, g_niox_only, timer, apartment, cur>>

\* g_watcher.reset(), line 242 (line 87), first half: thread t reads the pointer
\* g_watcher holds.
Watcher_reset_read(t) ==
    /\ ~crashed
    /\ UNCHANGED handler
    /\ thr[t].pc = "reset"
    /\ thr' = [thr EXCEPT ![t].pc = "delete", ![t].h = g_watcher]
    /\ last' = Step
    /\ UNCHANGED <<g_initialized, g_watcher, g_discovered_devices, g_callback,
                   g_user_data, g_niox_only, watchers, timer, apartment, crashed, cur>>

\* g_watcher.reset(), second half: thread t empties g_watcher and deletes the
\* watcher it read, if it read one.
Watcher_reset_write(t) ==
    /\ ~crashed
    /\ UNCHANGED handler
    /\ thr[t].pc = "delete"
    /\ g_watcher' = 0
    /\ cur' = NoScan
    /\ watchers' =
         IF thr[t].h # 0
         THEN [watchers EXCEPT ![thr[t].h] =
                 [status |-> "released", stops |-> @.stops,
                  released |-> @.released + 1]]
         ELSE watchers
    /\ thr' = [thr EXCEPT ![t].pc = "after"]
    /\ last' = Step
    /\ UNCHANGED <<g_initialized, g_discovered_devices, g_callback, g_user_data,
                   g_niox_only, timer, apartment, crashed>>

\* Line 225: winrt_stop_scan returns to the timer thread of scan w, which ends.
timer_return(w) ==
    /\ ~crashed
    /\ UNCHANGED handler
    /\ thr[w].pc = "after"
    /\ thr' = [thr EXCEPT ![w] = Outside]
    /\ timer' = [timer EXCEPT ![w].pc = "done"]
    /\ last' = [kind |-> "timer", w |-> w]
    /\ UNCHANGED <<g_initialized, g_watcher, g_discovered_devices, g_callback,
                   g_user_data, g_niox_only, watchers, apartment, crashed, cur>>

\* Line 244: winrt_stop_scan returns to the client.
return_winrt_stop_scan ==
    /\ ~crashed
    /\ UNCHANGED handler
    /\ thr[Client].op = "stop"
    /\ thr[Client].pc = "after"
    /\ thr' = [thr EXCEPT ![Client] = Outside]
    /\ last' = Returned("stop", 0)
    /\ UNCHANGED <<g_initialized, g_watcher, g_discovered_devices, g_callback,
                   g_user_data, g_niox_only, watchers, timer, apartment, crashed, cur>>

\* Lines 90-102: the rest of winrt_cleanup.
return_winrt_cleanup ==
    /\ ~crashed
    /\ UNCHANGED handler
    /\ thr[Client].op = "cleanup"
    /\ thr[Client].pc = "after"
    /\ g_discovered_devices' = <<>>
    /\ g_callback' = 0
    /\ g_user_data' = 0
    /\ g_initialized' = FALSE
    /\ apartment' = apartment - 1
    /\ thr' = [thr EXCEPT ![Client] = Outside]
    /\ last' = Returned("cleanup", 0)
    /\ UNCHANGED <<g_watcher, g_niox_only, watchers, timer, crashed, cur>>

\* Lines 148-156: the client enters winrt_start_scan; init_apartment succeeds.
call_winrt_start_scan(durationMs) ==
    /\ ~crashed
    /\ UNCHANGED handler
    /\ thr[Client].op = "none"
    /\ winrt_initialize_eff(TRUE)
    /\ IF g_watcher # 0
       THEN /\ last' = Returned("start", -1)
            /\ UNCHANGED thr
       ELSE /\ Created < MaxScans
            /\ thr' = [thr EXCEPT ![Client] =
                         [op |-> "start", pc |-> "create", h |-> 0, d |-> durationMs]]
            /\ last' = Step
    /\ UNCHANGED <<g_watcher, g_discovered_devices, g_callback, g_user_data,
                   g_niox_only, watchers, timer, crashed, cur>>

\* Lines 159-216: the globals are set and the watcher is created and configured.
start_scan_make_unique(nioxOnly, callback, userData) ==
    /\ ~crashed
    /\ UNCHANGED handler
    /\ thr[Client].pc = "create"
    /\ g_callback' = callback
    /\ g_user_data' = userData
    /\ g_niox_only' = (nioxOnly # 0)
    /\ g_discovered_devices' = <<>>
    /\ g_watcher' = Created + 1
    /\ watchers' = [watchers EXCEPT ![Created + 1] =
                      [status |-> "created", stops |-> 0, released |-> 0]]
    /\ cur' = [w |-> Created + 1, callback |-> callback, userData |-> userData,
               nioxOnly |-> nioxOnly]
    /\ thr' = [thr EXCEPT ![Client].pc = "Start"]
    /\ last' = Step
    /\ UNCHANGED <<g_initialized, timer, apartment, crashed>>

\* Lines 219-227: g_watcher->Start(), the launch of the timer thread, return 0.
\* Through an empty g_watcher, Start dereferences a null pointer: the process
\* dies, or the fault reaches catch (...) of lines 229-232 and -1 is returned.
start_scan_Start ==
    /\ ~crashed
    /\ UNCHANGED handler
    /\ thr[Client].pc = "Start"
    /\ thr' = [thr EXCEPT ![Client] = Outside]
    /\ IF g_watcher = 0
       THEN /\ crashed' \in BOOLEAN
            /\ last' = [kind |-> "nullderef", thread |-> Client]
            /\ UNCHANGED <<watchers, timer>>
       ELSE /\ watchers' = [watchers EXCEPT ![g_watcher].status = "started"]
            /\ timer' = LaunchTimer(g_watcher, thr[Client].d)
            /\ last' = Returned("start", 0)
            /\ UNCHANGED crashed
    /\ UNCHANGED <<g_initialized, g_watcher, g_discovered_devices, g_callback,
                   g_user_data, g_niox_only, apartment, cur>>

\* The clock of a live process.
clock_tick == ~crashed /\ Tick

NextConc ==
    \/ \E d \in Durations : call_winrt_start_scan(d)
    \/ start_scan_make_unique(0, 1, 1)
    \/ start_scan_Start
    \/ call_winrt_stop_scan
    \/ return_winrt_stop_scan
    \/ call_winrt_cleanup
    \/ return_winrt_cleanup
    \/ \E w \in ScanIds : timer_wake(w)
    \/ \E w \in ScanIds : timer_return(w)
    \/ \E t \in Threads : Watcher_Stop(t)
    \/ \E t \in Threads : Watcher_reset_read(t)
    \/ \E t \in Threads : Watcher_reset_write(t)
    \/ clock_tick

SpecConc == Init /\ [][NextConc]_vars

\* ------------------------------ the advertisement handler, statement by statement
\* The watcher raises Received on a thread of the platform; the handler reads the
\* globals with no lock, and the client's calls and the timer threads run between
\* its statements.  One handler runs at a time.

\* Lines 172-190: a running watcher delivers an advertisement; the handler reads
\* the local name and applies the filter.  A name that is not reported is freed
\* and the handler ends (lines 208-211).
handler_should_report(localName) ==
    /\ ~crashed
    /\ handler.pc = "out"
    /\ g_watcher # 0
    /\ watchers[g_watcher].status = "started"
    /\ handler' =
         IF should_report(local_name(localName))
         THEN [pc |-> "push_back", w |-> g_watcher, localName |-> localName,
               name |-> local_name(localName)]
         ELSE NoHandler
    /\ last' =
         IF should_report(local_name(localName))
         THEN Step
         ELSE [kind |-> "advert", w |-> g_watcher, localName |-> localName,
               device |-> [name |-> local_name(localName)], stored |-> FALSE,
               invoked |-> 0, callback |-> 0, userData |-> 0]
    /\ UNCHANGED <<g_initialized, g_watcher, g_discovered_devices, g_callback,
                   g_user_data, g_niox_only, watchers, timer, apartment, thr,
                   crashed, cur>>

\* Lines 193-201: the device is built and appended to g_discovered_devices.
handler_push_back ==
    /\ ~crashed
    /\ handler.pc = "push_back"
    /\ Len(g_discovered_devices) < MaxDevices
    /\ g_discovered_devices' = Append(g_discovered_devices, [name |-> handler.name])
    /\ handler' = [handler EXCEPT !.pc = "if_callback"]
    /\ last' = [kind |-> "push_back", w |-> handler.w]
    /\ UNCHANGED <<g_initialized, g_watcher, g_callback, g_user_data, g_niox_only,
                   watchers, timer, apartment, thr, crashed, cur>>

\* if (g_callback), line 204.
handler_if_callback ==
    /\ ~crashed
    /\ handler.pc = "if_callback"
    /\ handler' = IF g_callback # 0 THEN [handler EXCEPT !.pc = "callback"]
                  ELSE NoHandler
    /\ last' =
         IF g_callback # 0 THEN Step
         ELSE [kind |-> "advert", w |-> handler.w, localName |-> handler.localName,
               device |-> [name |-> handler.name], stored |-> TRUE,
               invoked |-> 0, callback |-> 0, userData |-> 0]
    /\ UNCHANGED <<g_initialized, g_watcher, g_discovered_devices, g_callback,
                   g_user_data, g_niox_only, watchers, timer, apartment, thr,
                   crashed, cur>>

\* g_callback(device, g_user_data), line 205: the handler reads g_callback again
\* and calls through it.  Through a null g_callback the call is an access
\* violation: the process dies, or the fault is swallowed by catch (...) of
\* lines 213-215.
handler_callback ==
    /\ ~crashed
    /\ handler.pc = "callback"
    /\ handler' = NoHandler
    /\ IF g_callback = 0
       THEN /\ last' = [kind |-> "nullcall", w |-> handler.w]
            /\ crashed' \in BOOLEAN
       ELSE /\ last' =
                 [kind |-> "advert", w |-> handler.w, localName |-> handler.localName,
                  device |-> [name |-> handler.name], stored |-> TRUE,
                  invoked |-> 1, callback |-> g_callback, userData |-> g_user_data]
            /\ UNCHANGED crashed
    /\ UNCHANGED <<g_initialized, g_watcher, g_discovered_devices, g_callback,
                   g_user_data, g_niox_only, watchers, timer, apartment, thr, cur>>

\* The client's calls and the timer threads run uninterrupted between the
\* statements of the handler; the library initializes at once, nothing throws and
\* the timers are due at once.
NextHandler ==
    \/ \E stopOk \in BOOLEAN : ~crashed /\ winrt_cleanup(stopOk)
    \/ \E n \in {0, 1}, cb \in Callbacks, ud \in UserData :
          ~crashed /\ winrt_start_scan(0, n, cb, ud, TRUE, "none")
    \/ \E stopOk \in BOOLEAN : ~crashed /\ winrt_stop_scan(stopOk)
    \/ \E w \in ScanIds, stopOk \in BOOLEAN : ~crashed /\ TimerThread(w, stopOk)
    \/ \E localName \in {<<>>, NIOX_PREFIX} : handler_should_report(localName)
    \/ handler_push_back
    \/ handler_if_callback
    \/ handler_callback

SpecHandler == Init /\ [][NextHandler]_vars

\* ------------------------------------------------------------------ claims
StartsWith(s, p) == Len(s) >= Len(p) /\ SubSeq(s, 1, Len(p)) = p

\* The last thing the client saw is an advertisement of the scan in progress.
AdvertOfCurrentScan == last.kind = "advert" /\ cur.w # 0 /\ last.w = cur.w

\* C1: whenever winrt_start_scan has returned 0 for scan w, the timer thread of w
\* eventually wakes and calls winrt_stop_scan, and when it has, no watcher exists;
\* no client call is needed for it.
C1_ScanEventuallyStopped ==
    \A w \in ScanIds : (g_watcher = w) ~> (timer[w].pc = "done" /\ g_watcher = 0)

\* C1 witness: the timer thread of a scan has just run, and the watcher of that
\* scan is released.
C1_Witness ==
    /\ last.kind = "timer"
    /\ timer[last.w].pc = "done"
    /\ watchers[last.w].status = "released"
    /\ g_watcher = 0

C3_StartResult ==
    [][(last'.kind = "call" /\ last'.op = "start") =>
            /\ last'.ret \in {0, -1}
            /\ ~last'.threw
            /\ last'.ret = 0 <=>
                 /\ g_watcher = 0
                 /\ g_watcher' # 0
                 /\ watchers[g_watcher'].status = "none"
                 /\ watchers'[g_watcher'].status = "started"
                 /\ timer'[g_watcher'].pc = "sleep"
            /\ last'.ret = -1 => g_watcher' = g_watcher /\ timer' = timer
            /\ g_watcher # 0 =>
                 /\ last'.ret = -1
                 /\ UNCHANGED <<g_watcher, g_callback, g_user_data, g_niox_only,
                                g_discovered_devices, watchers, timer>>]_vars

\* C3 witness: a winrt_start_scan has returned -1 while a scan with a stored device
\* is in progress.
C3_Witness ==
    /\ last = Returned("start", -1)
    /\ g_watcher # 0
    /\ g_discovered_devices # <<>>

C5_BluetoothState ==
    (last.kind = "call" /\ last.op = "check") =>
        /\ last.ret \in 0..3
        /\ ~last.threw
        /\ last.ret = 0 <=> last.env = "On"
        /\ last.env \in {"Off", "Disabled"} => last.ret = 1
        /\ last.env \in {"no_adapter", "no_radio"} => last.ret = 2
        /\ last.env \in {"Unknown", "Other", "throw", "init_fail"} => last.ret = 3
        /\ last.env # "init_fail" => g_initialized

\* C5 witness: the call has returned 3 because initialization failed.
C5_Witness == last = Checked(3, "init_fail")

\* C6: after winrt_stop_scan no watcher exists; it lets no exception escape,
\* whether or not Stop throws; it changes neither the device list, the callback,
\* the user data nor the initialized flag; and with no scan running it changes
\* nothing at all.  While it is the client's last call no watcher exists, so the
\* next winrt_start_scan is not rejected for a scan in progress.
C6_StopScan ==
    /\ [](last = Returned("stop", 0) => g_watcher = 0)
    /\ [][(last'.kind = "call" /\ last'.op = "stop") =>
              /\ last' = Returned("stop", 0)
              /\ g_watcher' = 0
              /\ g_watcher # 0 => watchers'[g_watcher].status = "released"
              /\ UNCHANGED <<g_discovered_devices, g_callback, g_user_data,
                             g_initialized, g_niox_only, timer, apartment>>
              /\ g_watcher = 0 => UNCHANGED watchers]_vars

\* C6 witness: winrt_stop_scan has ended a scan and the device it found is still
\* in the list.
C6_Witness ==
    /\ last = Returned("stop", 0)
    /\ \E w \in ScanIds : timer[w].pc = "sleep" /\ watchers[w].status = "released"
    /\ g_discovered_devices # <<>>

\* C7: after winrt_cleanup no watcher exists, the device list is empty, the
\* callback and the user data are null and the library is not initialized; the
\* next call that initializes then runs init_apartment again.
C7_Cleanup ==
    /\ [](last = Returned("cleanup", 0) =>
            /\ g_watcher = 0
            /\ g_discovered_devices = <<>>
            /\ g_callback = 0
            /\ g_user_data = 0
            /\ ~g_initialized
            /\ \A w \in ScanIds : watchers[w].status \in {"none", "released"})
    /\ [][(/\ last = Returned("cleanup", 0)
           /\ last'.kind = "call"
           /\ last'.op \in {"initialize", "check", "start"}
           /\ g_initialized')
          => apartment' = apartment + 1]_vars

\* C7 witness: winrt_cleanup has returned while the timer of a scan it, or a call
\* before it, has ended is still asleep.
C7_Witness ==
    /\ last = Returned("cleanup", 0)
    /\ \E w \in ScanIds : timer[w].pc = "sleep" /\ watchers[w].status = "released"

\* C8, as claimed: the timer thread of a scan stops no scan but its own.
C8_OnlyOwnTimerStops ==
    [][\A w \in ScanIds, stopOk \in BOOLEAN :
          (TimerThread(w, stopOk) /\ g_watcher # 0) => g_watcher = w]_vars

\* C9, as claimed: at most one timer thread is pending.
C9_SingleTimer == Cardinality({w \in ScanIds : timer[w].pc = "sleep"}) <= 1

\* C9, amended: a timer thread is launched by, and only by, a winrt_start_scan
\* that started a watcher, one per scan; the scan in progress has its own timer
\* pending, and the timers of earlier scans may be pending beside it.
C9_OneTimerPerScan ==
    /\ \A w \in ScanIds : timer[w].pc # "none" => watchers[w].status \in {"started", "released"}
    /\ g_watcher # 0 => timer[g_watcher].pc = "sleep"
    /\ Cardinality({w \in ScanIds : timer[w].pc = "sleep"}) <= Created

\* C9 witness: a scan is in progress and two timer threads are pending.
C9_Witness ==
    /\ g_watcher # 0
    /\ Cardinality({w \in ScanIds : timer[w].pc = "sleep"}) = 2

\* C10, as claimed: with the calls interleaved statement by statement, no thread
\* calls Stop or Start through an empty g_watcher, every watcher is stopped at
\* most once and released at most once, and a thread that has found g_watcher
\* non-empty still finds the same watcher in it when it calls Stop and when it
\* resets: no other thread has reset or re-created g_watcher in between.
C10_NoContention ==
    /\ last.kind # "nullderef"
    /\ ~crashed
    /\ \A w \in ScanIds : watchers[w].stops <= 1 /\ watchers[w].released <= 1
    /\ \A t \in Threads : thr[t].pc \in {"Stop", "reset"} => g_watcher = thr[t].h

\* C11, as claimed: while no scan is in progress (winrt_stop_scan, by the client
\* or by a timer thread, or winrt_cleanup has returned, and no winrt_start_scan
\* has succeeded since), no device is appended to the list, no callback is
\* invoked, and the handler calls through no null callback, even when a handler
\* was already running when the scan was stopped.
C11_NoResultsAfterStop ==
    [][g_watcher = 0 =>
          /\ Len(g_discovered_devices') <= Len(g_discovered_devices)
          /\ ~(last'.kind = "advert" /\ last'.invoked = 1)
          /\ last'.kind # "nullcall"]_vars

\* C12, as claimed: init_apartment is called only while the library is not
\* initialized, uninit_apartment only while it is initialized, and the
\* uninit_apartment calls never outnumber the successful init_apartment calls.
C12_ApartmentBalanced ==
    [][/\ apartment' > apartment => ~g_initialized
       /\ apartment' < apartment => g_initialized
       /\ apartment' >= 0]_vars

====
